---------------------------- MODULE Spec2Model ----------------------------
(***************************************************************************)
(* A model of the serial bootloader in                                     *)
(*   src/firmware/src/config/default/bootloader/bootloader.c               *)
(*                                                                         *)
(* The state is the file's static objects (input_buffer, flash_data,       *)
(* flash_addr, unlock_begin, unlock_end, input_command, packet_received,   *)
(* flash_data_ready, and input_task's statics ptr, size, header_received), *)
(* the position of the single thread of control (pc, with flash_task's     *)
(* locals), and the hardware the file drives: the flash array, the NVM     *)
(* controller's busy flag and bank status, the tick's COUNTFLAG, the       *)
(* transmitter, the trigger words in RAM, and the host's byte stream.      *)
(*                                                                         *)
(* TLC's integers are 32-bit signed, so a uint32_t is a tuple of its four  *)
(* bytes, least significant first (the target is little-endian), and the   *)
(* C operators on uint32_t are the operators W... below, all modulo 2^32.  *)
(***************************************************************************)
EXTENDS Integers, Naturals, Sequences, FiniteSets, TLC

-----------------------------------------------------------------------------
(* 32-bit words *)

Byte == 0..255

\* The word whose hexadecimal digits are b3 b2 b1 b0 (most significant first).
W(b3, b2, b1, b0) == <<b0, b1, b2, b3>>

\* A small natural number as a word.
ToWord(n) == <<n % 256, (n \div 256) % 256, (n \div 65536) % 256, (n \div 16777216) % 256>>

\* A word below 2^31 as a number.
ToInt(w) == w[1] + 256 * w[2] + 65536 * w[3] + 16777216 * w[4]

W_ZERO == <<0, 0, 0, 0>>
W_ONES == <<255, 255, 255, 255>>

RECURSIVE BitAnd(_, _)
BitAnd(a, b) ==
    IF a = 0 \/ b = 0 THEN 0
    ELSE (a % 2) * (b % 2) + 2 * BitAnd(a \div 2, b \div 2)

RECURSIVE BitXor(_, _)
BitXor(a, b) ==
    IF a = 0 THEN b
    ELSE IF b = 0 THEN a
    ELSE ((a + b) % 2) + 2 * BitXor(a \div 2, b \div 2)

\* x ^ y on 4-bit values, tabulated once.
NibbleXor == [a \in 0..15 |-> [b \in 0..15 |-> BitXor(a, b)]]

ByteXor(a, b) == 16 * NibbleXor[a \div 16][b \div 16] + NibbleXor[a % 16][b % 16]

\* a & b, a ^ b, ~a on uint32_t
WAnd(a, b) == <<BitAnd(a[1], b[1]), BitAnd(a[2], b[2]), BitAnd(a[3], b[3]), BitAnd(a[4], b[4])>>
WXor(a, b) == <<ByteXor(a[1], b[1]), ByteXor(a[2], b[2]), ByteXor(a[3], b[3]), ByteXor(a[4], b[4])>>
WNot(a) == <<255 - a[1], 255 - a[2], 255 - a[3], 255 - a[4]>>

\* a + b on uint32_t: the carry out of the top byte is dropped (modulo 2^32).
WAdd(a, b) ==
    LET s1 == a[1] + b[1]
        s2 == a[2] + b[2] + s1 \div 256
        s3 == a[3] + b[3] + s2 \div 256
        s4 == a[4] + b[4] + s3 \div 256
    IN  <<s1 % 256, s2 % 256, s3 % 256, s4 % 256>>

\* a - b on uint32_t (modulo 2^32)
WSub(a, b) == WAdd(a, WAdd(WNot(b), <<1, 0, 0, 0>>))

\* a < b, a <= b on uint32_t (unsigned)
WLess(a, b) ==
    \/ a[4] < b[4]
    \/ a[4] = b[4] /\ a[3] < b[3]
    \/ a[4] = b[4] /\ a[3] = b[3] /\ a[2] < b[2]
    \/ a[4] = b[4] /\ a[3] = b[3] /\ a[2] = b[2] /\ a[1] < b[1]

WLeq(a, b) == a = b \/ WLess(a, b)

\* a >> 8 on uint32_t
WShr8(a) == <<a[2], a[3], a[4], 0>>

-----------------------------------------------------------------------------
(* The program's constants *)

FLASH_START == 0
FLASH_LENGTH == 1048576
PAGE_SIZE == 512
ERASE_BLOCK_SIZE == 8192
PAGES_IN_ERASE_BLOCK == ERASE_BLOCK_SIZE \div PAGE_SIZE

APP_START_ADDRESS == 8192

GUARD_OFFSET == 0
CMD_OFFSET == 2
ADDR_OFFSET == 0
SIZE_OFFSET == 1
DATA_OFFSET == 1
CRC_OFFSET == 0

CMD_SIZE == 1
GUARD_SIZE == 4
SIZE_SIZE == 4
OFFSET_SIZE == 4
HEADER_SIZE == GUARD_SIZE + SIZE_SIZE + CMD_SIZE
DATA_SIZE == ERASE_BLOCK_SIZE

\* WORDS(x): x / sizeof(uint32_t)
WORDS(x) == x \div 4

\* (~ERASE_BLOCK_SIZE + 1) and (~PAGE_SIZE + 1) on unsigned long (32 bits here)
OFFSET_ALIGN_MASK == WAdd(WNot(ToWord(ERASE_BLOCK_SIZE)), ToWord(1))
SIZE_ALIGN_MASK == WAdd(WNot(ToWord(PAGE_SIZE)), ToWord(1))

\* 0x5048434D
BTL_GUARD == W(80, 72, 67, 77)

\* 0xAA55FADE, 0x55AAC0DE
SIGNATURE1 == W(170, 85, 250, 222)
SIGNATURE2 == W(85, 170, 192, 222)

BL_CMD_UNLOCK == 160
BL_CMD_DATA == 161
BL_CMD_VERIFY == 162
BL_CMD_RESET == 163
BL_CMD_BKSWAP_RESET == 164

BL_RESP_OK == 80
BL_RESP_ERROR == 81
BL_RESP_INVALID == 82
BL_RESP_CRC_OK == 83
BL_RESP_CRC_FAIL == 84

\* sizeof(input_buffer) in bytes: WORDS(OFFSET_SIZE + DATA_SIZE) words
INPUT_BUFFER_BYTES == 4 * WORDS(OFFSET_SIZE + DATA_SIZE)

-----------------------------------------------------------------------------
(* Memory: an array is kept as the finite map of its elements that differ  *)
(* from the array's background value (0 for the zero-initialised statics,  *)
(* 0xFFFFFFFF for erased flash).                                           *)

Get(m, k, bg) == IF k \in DOMAIN m THEN m[k] ELSE bg

Put(m, k, v, bg) ==
    IF v = bg
    THEN [x \in DOMAIN m \ {k} |-> m[x]]
    ELSE [x \in DOMAIN m \cup {k} |-> IF x = k THEN v ELSE m[x]]

EmptyMap == [x \in {} |-> 0]

\* input_buffer[i] read as a uint32_t through the byte overlay byte_buf
BufWord(buf, i) ==
    <<Get(buf, 4 * i, 0), Get(buf, 4 * i + 1, 0), Get(buf, 4 * i + 2, 0), Get(buf, 4 * i + 3, 0)>>

-----------------------------------------------------------------------------
(* Flash: the map from the address of a page to the page, for the pages     *)
(* that are not erased. A page is kept as a background word bg (0xFFFFFFFF  *)
(* when it was erased last, 0 once it has been programmed) and the map w    *)
(* from word index to the words of the page that differ from bg.            *)

PageOf(a) == a - (a % PAGE_SIZE)

ErasedPage == [bg |-> W_ONES, w |-> EmptyMap]

FlashPage(fl, p) == IF p \in DOMAIN fl THEN fl[p] ELSE ErasedPage

PageWord(pg, k) == Get(pg.w, k, pg.bg)

\* The word at the word-aligned address a
FlashWord(fl, a) == PageWord(FlashPage(fl, PageOf(a)), (a - PageOf(a)) \div 4)

\* The byte at address a (little-endian word layout).
FlashByte(fl, a) == FlashWord(fl, a - (a % 4))[(a % 4) + 1]

\* The flash that holds the words of m (a map from word address to word) and
\* is erased elsewhere.
FlashOf(m) ==
    [p \in {PageOf(a) : a \in DOMAIN m} |->
        [bg |-> W_ONES,
         w |-> [k \in {(a - p) \div 4 : a \in {x \in DOMAIN m : PageOf(x) = p}} |-> m[p + 4 * k]]]]

\* NVMCTRL_BlockErase(address): the erase block that holds address reads as
\* all ones afterwards.
NVMCTRL_BlockErase(fl, address) ==
    LET base == address - (address % ERASE_BLOCK_SIZE)
    IN  [p \in {x \in DOMAIN fl : x < base \/ x >= base + ERASE_BLOCK_SIZE} |-> fl[p]]

\* NVMCTRL_PageWrite(data, address): the WORDS(PAGE_SIZE) words data[idx..] are
\* programmed into the page at address; programming clears the bits that are
\* 0 in the data and leaves the others (the page is erased when flash_task
\* writes it). data is a map of the words that are not 0.
NVMCTRL_PageWrite(fl, data, idx, address) ==
    LET p == PageOf(address)
        old == FlashPage(fl, p)
        bg == WAnd(old.bg, W_ZERO)
        new(k) == WAnd(PageWord(old, k), Get(data, idx + k, W_ZERO))
        ks == {k \in DOMAIN old.w \cup {i - idx : i \in DOMAIN data} :
                  0 <= k /\ k < WORDS(PAGE_SIZE) /\ new(k) # bg}
    IN  [q \in DOMAIN fl \cup {p} |->
            IF q = p THEN [bg |-> bg, w |-> [k \in ks |-> new(k)]] ELSE fl[q]]

\* NVMCTRL_BankSwap(): the two banks (halves of the flash) exchange their
\* places in the address map.
BANK_SIZE == FLASH_LENGTH \div 2

SwapAddr(a) == IF a < BANK_SIZE THEN a + BANK_SIZE ELSE a - BANK_SIZE

NVMCTRL_BankSwap(fl) == [p \in {SwapAddr(x) : x \in DOMAIN fl} |-> fl[SwapAddr(p)]]

-----------------------------------------------------------------------------
(* crc32(): the table-driven software CRC *)

crcTable == <<
    <<0, 0, 0, 0>>, <<150, 48, 7, 119>>, <<44, 97, 14, 238>>, <<186, 81, 9, 153>>,
    <<25, 196, 109, 7>>, <<143, 244, 106, 112>>, <<53, 165, 99, 233>>, <<163, 149, 100, 158>>,
    <<50, 136, 219, 14>>, <<164, 184, 220, 121>>, <<30, 233, 213, 224>>, <<136, 217, 210, 151>>,
    <<43, 76, 182, 9>>, <<189, 124, 177, 126>>, <<7, 45, 184, 231>>, <<145, 29, 191, 144>>,
    <<100, 16, 183, 29>>, <<242, 32, 176, 106>>, <<72, 113, 185, 243>>, <<222, 65, 190, 132>>,
    <<125, 212, 218, 26>>, <<235, 228, 221, 109>>, <<81, 181, 212, 244>>, <<199, 133, 211, 131>>,
    <<86, 152, 108, 19>>, <<192, 168, 107, 100>>, <<122, 249, 98, 253>>, <<236, 201, 101, 138>>,
    <<79, 92, 1, 20>>, <<217, 108, 6, 99>>, <<99, 61, 15, 250>>, <<245, 13, 8, 141>>,
    <<200, 32, 110, 59>>, <<94, 16, 105, 76>>, <<228, 65, 96, 213>>, <<114, 113, 103, 162>>,
    <<209, 228, 3, 60>>, <<71, 212, 4, 75>>, <<253, 133, 13, 210>>, <<107, 181, 10, 165>>,
    <<250, 168, 181, 53>>, <<108, 152, 178, 66>>, <<214, 201, 187, 219>>, <<64, 249, 188, 172>>,
    <<227, 108, 216, 50>>, <<117, 92, 223, 69>>, <<207, 13, 214, 220>>, <<89, 61, 209, 171>>,
    <<172, 48, 217, 38>>, <<58, 0, 222, 81>>, <<128, 81, 215, 200>>, <<22, 97, 208, 191>>,
    <<181, 244, 180, 33>>, <<35, 196, 179, 86>>, <<153, 149, 186, 207>>, <<15, 165, 189, 184>>,
    <<158, 184, 2, 40>>, <<8, 136, 5, 95>>, <<178, 217, 12, 198>>, <<36, 233, 11, 177>>,
    <<135, 124, 111, 47>>, <<17, 76, 104, 88>>, <<171, 29, 97, 193>>, <<61, 45, 102, 182>>,
    <<144, 65, 220, 118>>, <<6, 113, 219, 1>>, <<188, 32, 210, 152>>, <<42, 16, 213, 239>>,
    <<137, 133, 177, 113>>, <<31, 181, 182, 6>>, <<165, 228, 191, 159>>, <<51, 212, 184, 232>>,
    <<162, 201, 7, 120>>, <<52, 249, 0, 15>>, <<142, 168, 9, 150>>, <<24, 152, 14, 225>>,
    <<187, 13, 106, 127>>, <<45, 61, 109, 8>>, <<151, 108, 100, 145>>, <<1, 92, 99, 230>>,
    <<244, 81, 107, 107>>, <<98, 97, 108, 28>>, <<216, 48, 101, 133>>, <<78, 0, 98, 242>>,
    <<237, 149, 6, 108>>, <<123, 165, 1, 27>>, <<193, 244, 8, 130>>, <<87, 196, 15, 245>>,
    <<198, 217, 176, 101>>, <<80, 233, 183, 18>>, <<234, 184, 190, 139>>, <<124, 136, 185, 252>>,
    <<223, 29, 221, 98>>, <<73, 45, 218, 21>>, <<243, 124, 211, 140>>, <<101, 76, 212, 251>>,
    <<88, 97, 178, 77>>, <<206, 81, 181, 58>>, <<116, 0, 188, 163>>, <<226, 48, 187, 212>>,
    <<65, 165, 223, 74>>, <<215, 149, 216, 61>>, <<109, 196, 209, 164>>, <<251, 244, 214, 211>>,
    <<106, 233, 105, 67>>, <<252, 217, 110, 52>>, <<70, 136, 103, 173>>, <<208, 184, 96, 218>>,
    <<115, 45, 4, 68>>, <<229, 29, 3, 51>>, <<95, 76, 10, 170>>, <<201, 124, 13, 221>>,
    <<60, 113, 5, 80>>, <<170, 65, 2, 39>>, <<16, 16, 11, 190>>, <<134, 32, 12, 201>>,
    <<37, 181, 104, 87>>, <<179, 133, 111, 32>>, <<9, 212, 102, 185>>, <<159, 228, 97, 206>>,
    <<14, 249, 222, 94>>, <<152, 201, 217, 41>>, <<34, 152, 208, 176>>, <<180, 168, 215, 199>>,
    <<23, 61, 179, 89>>, <<129, 13, 180, 46>>, <<59, 92, 189, 183>>, <<173, 108, 186, 192>>,
    <<32, 131, 184, 237>>, <<182, 179, 191, 154>>, <<12, 226, 182, 3>>, <<154, 210, 177, 116>>,
    <<57, 71, 213, 234>>, <<175, 119, 210, 157>>, <<21, 38, 219, 4>>, <<131, 22, 220, 115>>,
    <<18, 11, 99, 227>>, <<132, 59, 100, 148>>, <<62, 106, 109, 13>>, <<168, 90, 106, 122>>,
    <<11, 207, 14, 228>>, <<157, 255, 9, 147>>, <<39, 174, 0, 10>>, <<177, 158, 7, 125>>,
    <<68, 147, 15, 240>>, <<210, 163, 8, 135>>, <<104, 242, 1, 30>>, <<254, 194, 6, 105>>,
    <<93, 87, 98, 247>>, <<203, 103, 101, 128>>, <<113, 54, 108, 25>>, <<231, 6, 107, 110>>,
    <<118, 27, 212, 254>>, <<224, 43, 211, 137>>, <<90, 122, 218, 16>>, <<204, 74, 221, 103>>,
    <<111, 223, 185, 249>>, <<249, 239, 190, 142>>, <<67, 190, 183, 23>>, <<213, 142, 176, 96>>,
    <<232, 163, 214, 214>>, <<126, 147, 209, 161>>, <<196, 194, 216, 56>>, <<82, 242, 223, 79>>,
    <<241, 103, 187, 209>>, <<103, 87, 188, 166>>, <<221, 6, 181, 63>>, <<75, 54, 178, 72>>,
    <<218, 43, 13, 216>>, <<76, 27, 10, 175>>, <<246, 74, 3, 54>>, <<96, 122, 4, 65>>,
    <<195, 239, 96, 223>>, <<85, 223, 103, 168>>, <<239, 142, 110, 49>>, <<121, 190, 105, 70>>,
    <<140, 179, 97, 203>>, <<26, 131, 102, 188>>, <<160, 210, 111, 37>>, <<54, 226, 104, 82>>,
    <<149, 119, 12, 204>>, <<3, 71, 11, 187>>, <<185, 22, 2, 34>>, <<47, 38, 5, 85>>,
    <<190, 59, 186, 197>>, <<40, 11, 189, 178>>, <<146, 90, 180, 43>>, <<4, 106, 179, 92>>,
    <<167, 255, 215, 194>>, <<49, 207, 208, 181>>, <<139, 158, 217, 44>>, <<29, 174, 222, 91>>,
    <<176, 194, 100, 155>>, <<38, 242, 99, 236>>, <<156, 163, 106, 117>>, <<10, 147, 109, 2>>,
    <<169, 6, 9, 156>>, <<63, 54, 14, 235>>, <<133, 103, 7, 114>>, <<19, 87, 0, 5>>,
    <<130, 74, 191, 149>>, <<20, 122, 184, 226>>, <<174, 43, 177, 123>>, <<56, 27, 182, 12>>,
    <<155, 142, 210, 146>>, <<13, 190, 213, 229>>, <<183, 239, 220, 124>>, <<33, 223, 219, 11>>,
    <<212, 210, 211, 134>>, <<66, 226, 212, 241>>, <<248, 179, 221, 104>>, <<110, 131, 218, 31>>,
    <<205, 22, 190, 129>>, <<91, 38, 185, 246>>, <<225, 119, 176, 111>>, <<119, 71, 183, 24>>,
    <<230, 90, 8, 136>>, <<112, 106, 15, 255>>, <<202, 59, 6, 102>>, <<92, 11, 1, 17>>,
    <<255, 158, 101, 143>>, <<105, 174, 98, 248>>, <<211, 255, 107, 97>>, <<69, 207, 108, 22>>,
    <<120, 226, 10, 160>>, <<238, 210, 13, 215>>, <<84, 131, 4, 78>>, <<194, 179, 3, 57>>,
    <<97, 38, 103, 167>>, <<247, 22, 96, 208>>, <<77, 71, 105, 73>>, <<219, 119, 110, 62>>,
    <<74, 106, 209, 174>>, <<220, 90, 214, 217>>, <<102, 11, 223, 64>>, <<240, 59, 216, 55>>,
    <<83, 174, 188, 169>>, <<197, 158, 187, 222>>, <<127, 207, 178, 71>>, <<233, 255, 181, 48>>,
    <<28, 242, 189, 189>>, <<138, 194, 186, 202>>, <<48, 147, 179, 83>>, <<166, 163, 180, 36>>,
    <<5, 54, 208, 186>>, <<147, 6, 215, 205>>, <<41, 87, 222, 84>>, <<191, 103, 217, 35>>,
    <<46, 122, 102, 179>>, <<184, 74, 97, 196>>, <<2, 27, 104, 93>>, <<148, 43, 111, 42>>,
    <<55, 190, 11, 180>>, <<161, 142, 12, 195>>, <<27, 223, 5, 90>>, <<141, 239, 2, 45>>
>>

\* One turn of the loop: crc32 = (crc32 >> 8) ^ crcTable[(crc32 ^ byteBuf[i]) & 0xFF]
CrcStep(crc, b) == WXor(WShr8(crc), crcTable[ByteXor(crc[1], b) + 1])

\* The loop over the bytes at [lo, hi) of flash, split in halves to bound the
\* depth of the evaluation. (The middle and the CRC of the first half are
\* bound as elements of one-element sets, so that they are computed once.)
RECURSIVE CrcLoop(_, _, _, _)
CrcLoop(crc, fl, lo, hi) ==
    IF hi <= lo THEN crc
    ELSE IF hi = lo + 1 THEN CrcStep(crc, FlashByte(fl, lo))
    ELSE CHOOSE r \in UNION {{CrcLoop(left, fl, mid, hi) :
                                 left \in {CrcLoop(crc, fl, lo, mid)}} :
                             mid \in {lo + (hi - lo) \div 2}} : TRUE

\* crc32(inCrc32, buf, bufLen) with buf an address of flash
crc32(inCrc32, fl, buf, bufLen) ==
    CHOOSE r \in {WXor(CrcLoop(c, fl, b, b + n), W_ONES) :
                     c \in {WXor(inCrc32, W_ONES)}, b \in {buf}, n \in {bufLen}} : TRUE

\* DSU_CRCCalculate(addr, size, 0xffffffff, &crc): the hardware CRC32 over
\* [addr, addr + size), bit-identical to crc32() over the same bytes; with
\* size 0 nothing is computed and crc keeps its initial value 0.
DSU_CRCCalculate(fl, a, len) == IF len = 0 THEN W_ZERO ELSE crc32(W_ZERO, fl, a, len)

-----------------------------------------------------------------------------
(* State *)

VARIABLES
    pc,                 \* where the thread of control is (see PcValues)
    \* bootloader.c, file scope
    input_buffer,       \* bytes of input_buffer that are not 0, by byte index
    flash_data,         \* words of flash_data that are not 0, by word index
    flash_addr,
    unlock_begin,
    unlock_end,
    input_command,
    packet_received,
    flash_data_ready,
    \* input_task's statics
    ptr,
    size,
    header_received,
    \* flash_task's locals
    addr,
    page,
    write_idx,
    \* hardware
    flash,              \* words of flash that are not erased, by address
    nvm_busy,           \* NVMCTRL_IsBusy()
    afirst,             \* NVMCTRL_STATUS_AFIRST: bank A is mapped first
    tick_expired,       \* SYSTICK_TimerPeriodHasExpired()
    tx,                 \* the bytes given to SERCOM0_USART_WriteByte, in order
    tx_complete,        \* SERCOM0_USART_TransmitComplete()
    sram,               \* the two trigger words at BTL_TRIGGER_RAM_START
    \* the host
    h_plan,             \* what this host sends (a name of Plans)
    h_step,             \* how many items of the plan it has started
    h_item,             \* the item being sent
    h_off,              \* how many bytes of it the receiver has read
    \* history, read by the properties only
    n_packets,          \* times input_task set packet_received
    n_bad_guard,        \* times input_task found a header's guard wrong
    n_cmd,              \* calls of command_task
    n_data_ok,          \* DATA commands accepted
    nvm_log,            \* the NVM commands issued, in order
    boot_log            \* what the boot decisions since power-on were

prog_vars == <<input_buffer, flash_data, flash_addr, unlock_begin, unlock_end,
               input_command, packet_received, flash_data_ready>>
rx_vars == <<ptr, size, header_received>>
ft_vars == <<addr, page, write_idx>>
hw_vars == <<flash, nvm_busy, afirst, tick_expired, tx, tx_complete, sram>>
host_vars == <<h_plan, h_step, h_item, h_off>>
hist_vars == <<n_packets, n_bad_guard, n_cmd, n_data_ok, nvm_log, boot_log>>

vars == <<pc, prog_vars, rx_vars, ft_vars, hw_vars, host_vars, hist_vars>>

PcValues == {"reset",           \* at the reset vector
             "loop",            \* bootloader_Tasks, top of while (1)
             "unlock_wait",     \* flash_task, busy-wait after NVMCTRL_RegionUnlock
             "erase_wait",      \* flash_task, busy-wait after NVMCTRL_BlockErase
             "page_wait",       \* flash_task, busy-wait after NVMCTRL_PageWrite
             "tx_wait_swap",    \* command_task, BKSWAP_RESET: while (!TransmitComplete)
             "tx_wait_reset",   \* command_task, RESET: while (!TransmitComplete)
             "app",             \* the application runs
             "undefined"}       \* after a store outside input_buffer

-----------------------------------------------------------------------------
(* The host: a plan is a sequence of menus; the host sends one item of each *)
(* menu in turn. An item is a pause longer than the tick period, or the     *)
(* first n bytes of a packet (all of them, for a whole packet).             *)

\* The payload bytes that follow the payload words `words` of an item are those
\* of one of these 8192-byte blocks (given by their bytes that are not 0).
Blocks == <<
    EmptyMap,
    (0 :> 1) @@ (511 :> 2) @@ (512 :> 3) @@ (4096 :> 4) @@ (8191 :> 5)
>>

Packet(cmd, psize, words, blk) ==
    [kind |-> "packet", guard |-> BTL_GUARD, size |-> psize, cmd |-> cmd,
     words |-> words, blk |-> blk, n |-> HEADER_SIZE + ToInt(psize)]

\* The first n bytes of a packet.
Truncated(p, n) == [p EXCEPT !.n = n]

\* A header whose guard is wrong.
BadGuard(p, g) == [p EXCEPT !.guard = g, !.n = HEADER_SIZE]

Pause == [kind |-> "pause", guard |-> W_ZERO, size |-> W_ZERO, cmd |-> 0,
          words |-> <<>>, blk |-> 1, n |-> 0]

NoItem == [Pause EXCEPT !.kind = "none"]

\* Byte i (from 0) of an item
ItemByte(it, i) ==
    IF i < GUARD_SIZE THEN it.guard[i + 1]
    ELSE IF i < GUARD_SIZE + SIZE_SIZE THEN it.size[i - GUARD_SIZE + 1]
    ELSE IF i < HEADER_SIZE THEN it.cmd
    ELSE LET j == i - HEADER_SIZE
         IN  IF j < 4 * Len(it.words)
             THEN it.words[(j \div 4) + 1][(j % 4) + 1]
             ELSE Get(Blocks[it.blk], j - 4 * Len(it.words), 0)

-----------------------------------------------------------------------------
(* input_task *)

\* The statics input_task works on, as one record.
Rx == [ptr |-> ptr, size |-> size, header_received |-> header_received,
       input_buffer |-> input_buffer, input_command |-> input_command,
       packet_received |-> packet_received]

\* What a call adds to the record: whether it read the byte, the response it
\* wrote, whether it completed a packet, found a bad guard, or stored outside
\* input_buffer.
Quiet(rx) == [ptr |-> rx.ptr, size |-> rx.size, header_received |-> rx.header_received,
              input_buffer |-> rx.input_buffer, input_command |-> rx.input_command,
              packet_received |-> rx.packet_received,
              read |-> FALSE, resp |-> <<>>, completed |-> FALSE, bad_guard |-> FALSE,
              overrun |-> FALSE]

\* (a variant: the wrong guard is not answered)
BadGuardResponse_m == <<>>

\* SERCOM0_USART_WriteByte(BL_RESP_ERROR): what a header with a wrong guard is
\* answered with
BadGuardResponse == <<BL_RESP_ERROR>>

\* if (header_received == false) { ... }: one more byte of a header
HeaderByte(rx, input_data) ==
    LET buf == Put(rx.input_buffer, rx.ptr, input_data, 0)
        p == rx.ptr + 1
        q == [Quiet(rx) EXCEPT !.read = TRUE, !.header_received = FALSE]
    IN  IF rx.ptr >= INPUT_BUFFER_BYTES THEN [q EXCEPT !.overrun = TRUE]
        ELSE IF p # HEADER_SIZE THEN [q EXCEPT !.input_buffer = buf, !.ptr = p]
        ELSE IF BufWord(buf, GUARD_OFFSET) # BTL_GUARD
        THEN [q EXCEPT !.input_buffer = buf, !.ptr = 0,
                       !.resp = BadGuardResponse, !.bad_guard = TRUE]
        ELSE [q EXCEPT !.input_buffer = buf, !.ptr = 0,
                       !.size = BufWord(buf, SIZE_OFFSET),
                       !.input_command = BufWord(buf, CMD_OFFSET)[1],
                       !.header_received = TRUE]

\* else if (header_received == true) { ... }: one more byte of a payload
PayloadByte(rx, input_data) ==
    LET store == WLess(ToWord(rx.ptr), rx.size)
        buf == IF store THEN Put(rx.input_buffer, rx.ptr, input_data, 0) ELSE rx.input_buffer
        p == IF store THEN rx.ptr + 1 ELSE rx.ptr
        q == [Quiet(rx) EXCEPT !.read = TRUE]
    IN  IF store /\ rx.ptr >= INPUT_BUFFER_BYTES THEN [q EXCEPT !.overrun = TRUE]
        ELSE IF ToWord(p) = rx.size
        THEN [q EXCEPT !.input_buffer = buf, !.ptr = 0, !.size = W_ZERO,
                       !.packet_received = TRUE, !.header_received = FALSE,
                       !.completed = TRUE]
        ELSE [q EXCEPT !.input_buffer = buf, !.ptr = p]

\* (a variant: packet_received is not read)
input_task_m(rx, ready, input_data, expired) ==
    IF ~ready THEN Quiet(rx)
    ELSE IF expired \/ ~rx.header_received THEN HeaderByte(rx, input_data)
    ELSE PayloadByte(rx, input_data)

\* One call of input_task(): ready is SERCOM0_USART_ReceiverIsReady(),
\* input_data what SERCOM0_USART_ReadByte() returns, expired what
\* SYSTICK_TimerPeriodHasExpired() returns.
input_task(rx, ready, input_data, expired) ==
    IF rx.packet_received THEN Quiet(rx)
    ELSE IF ~ready THEN Quiet(rx)
    ELSE IF expired \/ ~rx.header_received THEN HeaderByte(rx, input_data)
    ELSE PayloadByte(rx, input_data)

-----------------------------------------------------------------------------
(* command_task *)

\* begin and end of the window an UNLOCK asks for
UnlockBegin(buf) == WAnd(BufWord(buf, ADDR_OFFSET), OFFSET_ALIGN_MASK)
UnlockEnd(buf) == WAdd(UnlockBegin(buf), WAnd(BufWord(buf, SIZE_OFFSET), SIZE_ALIGN_MASK))

\* (a variant: end > begin is not asked for)
UnlockValid_m(begin, end) == WLeq(end, ToWord(FLASH_START + FLASH_LENGTH))

\* end > begin && end <= (FLASH_START + FLASH_LENGTH)
UnlockValid(begin, end) ==
    WLess(begin, end) /\ WLeq(end, ToWord(FLASH_START + FLASH_LENGTH))

\* (a variant: the address is not aligned)
DataAddr_m(buf) == BufWord(buf, ADDR_OFFSET)

\* flash_addr of a DATA
DataAddr(buf) == WAnd(BufWord(buf, ADDR_OFFSET), OFFSET_ALIGN_MASK)

\* (a variant: flash_addr < unlock_end is not asked for)
DataInWindow_m(ub, ue, fa) == WLeq(ub, fa)

\* unlock_begin <= flash_addr && flash_addr < unlock_end
DataInWindow(ub, ue, fa) == WLeq(ub, fa) /\ WLess(fa, ue)

\* for (i = 0; i < WORDS(DATA_SIZE); i++) flash_data[i] = input_buffer[i + DATA_OFFSET];
StageData(buf) ==
    LET idx == {i \in {(b \div 4) - DATA_OFFSET : b \in DOMAIN buf} :
                   0 <= i /\ i < WORDS(DATA_SIZE)}
    IN  [i \in idx |-> BufWord(buf, i + DATA_OFFSET)]

\* (a variant: the CRC of the window's first page only)
crc_generate_m(fl, ub, ue) == DSU_CRCCalculate(fl, ToInt(ub), PAGE_SIZE)

\* crc_generate(): the hardware CRC over [unlock_begin, unlock_end)
crc_generate(fl, ub, ue) ==
    DSU_CRCCalculate(fl, ToInt(ub), ToInt(WSub(ue, ub)))

\* The program's objects command_task works on, as one record.
Cmd == [unlock_begin |-> unlock_begin, unlock_end |-> unlock_end,
        flash_addr |-> flash_addr, flash_data |-> flash_data,
        flash_data_ready |-> flash_data_ready]

\* One call of command_task() on the buffer buf with the latched command cmd:
\* the objects afterwards, the response written, and where control goes
\* ("loop": the call returns; otherwise it waits for the transmitter and resets).
command_task(c, buf, cmd, fl) ==
    LET r == [unlock_begin |-> c.unlock_begin, unlock_end |-> c.unlock_end,
              flash_addr |-> c.flash_addr, flash_data |-> c.flash_data,
              flash_data_ready |-> c.flash_data_ready,
              resp |-> BL_RESP_INVALID, next |-> "loop"]
    IN  IF cmd = BL_CMD_UNLOCK THEN
            IF UnlockValid(UnlockBegin(buf), UnlockEnd(buf))
            THEN [r EXCEPT !.unlock_begin = UnlockBegin(buf),
                           !.unlock_end = UnlockEnd(buf), !.resp = BL_RESP_OK]
            ELSE [r EXCEPT !.unlock_begin = W_ZERO, !.unlock_end = W_ZERO,
                           !.resp = BL_RESP_ERROR]
        ELSE IF cmd = BL_CMD_DATA THEN
            IF DataInWindow(c.unlock_begin, c.unlock_end, DataAddr(buf))
            THEN [r EXCEPT !.flash_addr = DataAddr(buf), !.flash_data = StageData(buf),
                           !.flash_data_ready = TRUE, !.resp = BL_RESP_OK]
            ELSE [r EXCEPT !.flash_addr = DataAddr(buf), !.resp = BL_RESP_ERROR]
        ELSE IF cmd = BL_CMD_VERIFY THEN
            IF BufWord(buf, CRC_OFFSET) = crc_generate(fl, c.unlock_begin, c.unlock_end)
            THEN [r EXCEPT !.resp = BL_RESP_CRC_OK]
            ELSE [r EXCEPT !.resp = BL_RESP_CRC_FAIL]
        ELSE IF cmd = BL_CMD_BKSWAP_RESET THEN
            [r EXCEPT !.resp = BL_RESP_OK, !.next = "tx_wait_swap"]
        ELSE IF cmd = BL_CMD_RESET THEN
            [r EXCEPT !.resp = BL_RESP_OK, !.next = "tx_wait_reset"]
        ELSE r

-----------------------------------------------------------------------------
(* The boot decision *)

NULL == 0

\* find_binary_header(): the loop runs while (start - 1) < end, with end one
\* past the last word of the first erase block, so start == end is examined too.
ScanFirst == APP_START_ADDRESS
ScanLast == APP_START_ADDRESS + 4 * WORDS(ERASE_BLOCK_SIZE)

\* if (start[0] == SIGNATURE1 && start[1] == SIGNATURE2)
IsHeaderAt(fl, w) == FlashWord(fl, w) = SIGNATURE1 /\ FlashWord(fl, w + 4) = SIGNATURE2

\* The addresses of the words that differ from their page's background: the
\* only words that can hold SIGNATURE1, which is neither 0 nor 0xFFFFFFFF.
Foreground(fl) == UNION {{p + 4 * k : k \in DOMAIN fl[p].w} : p \in DOMAIN fl}

\* The lowest examined address that holds the two signatures, or NULL.
find_binary_header(fl) ==
    LET found == {w \in Foreground(fl) :
                     /\ ScanFirst <= w /\ w <= ScanLast /\ w % 4 = 0
                     /\ IsHeaderAt(fl, w)}
    IN  IF found = {} THEN NULL
        ELSE CHOOSE w \in found : \A v \in found : w <= v

\* sizeof(struct binary_header), and its members bin_size and crc32
HDR_SIZE == 16
HdrBinSize(fl, hdr) == FlashWord(fl, hdr + 8)
HdrCrc32(fl, hdr) == FlashWord(fl, hdr + 12)

\* (size_t)(end - tmp) of the second crc32 call: end = start + bin_size and
\* tmp = hdr + sizeof(struct binary_header), modulo 2^32
TailLen(fl, hdr) == WSub(HdrBinSize(fl, hdr), ToWord(hdr + HDR_SIZE - APP_START_ADDRESS))

\* Whether that second call reads flash only.
TailInFlash(fl, hdr) ==
    LET len == TailLen(fl, hdr)
    IN  WLeq(len, ToWord(FLASH_LENGTH)) /\ hdr + HDR_SIZE + ToInt(len) <= FLASH_START + FLASH_LENGTH

\* checksum = crc32(crc32(0, start, tmp - start), tmp + 16, end - (tmp + 16))
ImageChecksum(fl, hdr) ==
    crc32(crc32(W_ZERO, fl, APP_START_ADDRESS, hdr - APP_START_ADDRESS),
          fl, hdr + HDR_SIZE, ToInt(TailLen(fl, hdr)))

\* (a variant: the image is launched without its CRC being compared)
run_Application_m(fl, af) ==
    IF FlashWord(fl, APP_START_ADDRESS) = W_ONES THEN [does |-> "return", why |-> "no_app"]
    ELSE IF find_binary_header(fl) = NULL THEN [does |-> "return", why |-> "no_header"]
    ELSE [does |-> "launch", why |-> "crc_match"]

\* run_Application(): what it does, and why.
\*   "return"    it returns, and the bootloader loop is entered
\*   "swap"      it calls NVMCTRL_BankSwap(), which swaps the banks and resets
\*   "launch"    it sets the MSP and branches to the reset vector
\*   "undefined" its CRC loop runs off the end of the flash
run_Application(fl, af) ==
    LET msp == FlashWord(fl, APP_START_ADDRESS)
        hdr == find_binary_header(fl)
    IN  IF msp = W_ONES THEN [does |-> "return", why |-> "no_app"]
        ELSE IF hdr = NULL THEN [does |-> "return", why |-> "no_header"]
        ELSE IF ~TailInFlash(fl, hdr) THEN [does |-> "undefined", why |-> "crc_range"]
        ELSE IF ImageChecksum(fl, hdr) # HdrCrc32(fl, hdr)
        THEN IF af THEN [does |-> "swap", why |-> "crc_mismatch"]
             ELSE [does |-> "return", why |-> "crc_mismatch"]
        ELSE [does |-> "launch", why |-> "crc_match"]

\* (a variant: the trigger words are not read)
bootloader_Trigger_m(fl, sr) == FlashWord(fl, APP_START_ADDRESS) = W_ONES

\* bootloader_Trigger()
bootloader_Trigger(fl, sr) ==
    IF FlashWord(fl, APP_START_ADDRESS) = W_ONES THEN TRUE
    ELSE IF sr[1] = "TRIGGER_SIGNATURE0" /\ sr[2] = "TRIGGER_SIGNATURE1" THEN TRUE
    ELSE FALSE

-----------------------------------------------------------------------------
(* Actions: the main loop *)

FlashWaits == {"unlock_wait", "erase_wait", "page_wait"}
TxWaits == {"tx_wait_swap", "tx_wait_reset"}

\* SERCOM0_USART_ReceiverIsReady(): a byte the host has sent may be there.
ReadyChoices == IF h_off < h_item.n THEN BOOLEAN ELSE {FALSE}

\* The call of input_task() made in this step.
Polled(ready) ==
    input_task(Rx, ready, IF ready THEN ItemByte(h_item, h_off) ELSE 0, tick_expired)

\* (a variant: every call restarts the tick)
Received_m(r) ==
    /\ ptr' = r.ptr
    /\ size' = r.size
    /\ header_received' = r.header_received
    /\ input_buffer' = r.input_buffer
    /\ input_command' = r.input_command
    /\ h_off' = IF r.read THEN h_off + 1 ELSE h_off
    /\ tick_expired' = FALSE
    /\ n_packets' = IF r.completed THEN n_packets + 1 ELSE n_packets
    /\ n_bad_guard' = IF r.bad_guard THEN n_bad_guard + 1 ELSE n_bad_guard

\* What a call of input_task() leaves behind, but for packet_received and tx,
\* which the step's other calls write too. Reading the tick's flag clears it,
\* and so does SYSTICK_TimerRestart().
Received(r) ==
    /\ ptr' = r.ptr
    /\ size' = r.size
    /\ header_received' = r.header_received
    /\ input_buffer' = r.input_buffer
    /\ input_command' = r.input_command
    /\ h_off' = IF r.read THEN h_off + 1 ELSE h_off
    /\ tick_expired' = IF r.read THEN FALSE ELSE tick_expired
    /\ n_packets' = IF r.completed THEN n_packets + 1 ELSE n_packets
    /\ n_bad_guard' = IF r.bad_guard THEN n_bad_guard + 1 ELSE n_bad_guard

\* An NVM command as the log keeps it.
NvmOp(op, a, idx) == [op |-> op, addr |-> a, idx |-> idx, busy |-> nvm_busy]

\* (a variant: the else branch is missing)
bootloader_Tasks_f(data_ready, pending) == IF data_ready THEN "flash_task" ELSE "none"

\* (a variant: flash_data_ready is not read)
bootloader_Tasks_m(data_ready, pending) == IF pending THEN "command_task" ELSE "none"

\* bootloader_Tasks(): what a turn of while (1) calls after input_task()
\*     if (flash_data_ready) flash_task(); else if (packet_received) command_task();
bootloader_Tasks(data_ready, pending) ==
    IF data_ready THEN "flash_task"
    ELSE IF pending THEN "command_task"
    ELSE "none"

\* input_task(); neither flag is set.
Loop_Idle ==
    /\ pc = "loop"
    /\ \E ready \in ReadyChoices :
       \E r \in {Polled(ready)} :
         /\ ~r.overrun
         /\ bootloader_Tasks(flash_data_ready, r.packet_received) = "none"
         /\ Received(r)
         /\ packet_received' = r.packet_received
         /\ tx' = tx \o r.resp
    /\ UNCHANGED <<pc, flash_data, flash_addr, unlock_begin, unlock_end, flash_data_ready,
                   ft_vars, flash, nvm_busy, afirst, tx_complete, sram,
                   h_plan, h_step, h_item, n_cmd, n_data_ok, nvm_log, boot_log>>

\* input_task(); else if (packet_received) command_task();
Loop_Command ==
    /\ pc = "loop"
    /\ \E ready \in ReadyChoices :
       \E r \in {Polled(ready)} :
         /\ ~r.overrun
         /\ bootloader_Tasks(flash_data_ready, r.packet_received) = "command_task"
         /\ \E c \in {command_task(Cmd, r.input_buffer, r.input_command, flash)} :
             /\ Received(r)
             /\ tx' = (tx \o r.resp) \o <<c.resp>>
             /\ unlock_begin' = c.unlock_begin
             /\ unlock_end' = c.unlock_end
             /\ flash_addr' = c.flash_addr
             /\ flash_data' = c.flash_data
             /\ flash_data_ready' = c.flash_data_ready
             /\ n_data_ok' = IF c.flash_data_ready THEN n_data_ok + 1 ELSE n_data_ok
             \* packet_received = false is not reached by the two reset commands;
             \* TransmitComplete() is read by them only
             /\ packet_received' = (c.next # "loop")
             /\ tx_complete' = IF c.next = "loop" THEN tx_complete ELSE FALSE
             /\ pc' = c.next
    /\ n_cmd' = n_cmd + 1
    /\ UNCHANGED <<ft_vars, flash, nvm_busy, afirst, sram, h_plan, h_step, h_item,
                   nvm_log, boot_log>>

\* input_task(); if (flash_data_ready) flash_task(): up to its first busy-wait
Loop_Flash ==
    /\ pc = "loop"
    /\ \E ready \in ReadyChoices :
       \E r \in {Polled(ready)} :
         /\ ~r.overrun
         /\ bootloader_Tasks(flash_data_ready, r.packet_received) = "flash_task"
         /\ Received(r)
         /\ packet_received' = r.packet_received
         /\ tx' = tx \o r.resp
    /\ addr' = ToInt(flash_addr)
    /\ page' = 0
    /\ write_idx' = 0
    /\ nvm_log' = Append(nvm_log, NvmOp("unlock", addr', 0))
    /\ nvm_busy' = TRUE
    /\ pc' = "unlock_wait"
    /\ UNCHANGED <<flash_data, flash_addr, unlock_begin, unlock_end, flash_data_ready,
                   flash, afirst, tx_complete, sram, h_plan, h_step, h_item,
                   n_cmd, n_data_ok, boot_log>>

-----------------------------------------------------------------------------
(* Actions: flash_task *)

\* while (NVMCTRL_IsBusy() == true) input_task();
Flash_Poll ==
    /\ pc \in FlashWaits
    /\ nvm_busy
    /\ \E ready \in ReadyChoices :
       \E r \in {Polled(ready)} :
         /\ ~r.overrun
         /\ Received(r)
         /\ packet_received' = r.packet_received
         /\ tx' = tx \o r.resp
    /\ UNCHANGED <<pc, flash_data, flash_addr, unlock_begin, unlock_end, flash_data_ready,
                   ft_vars, flash, nvm_busy, afirst, tx_complete, sram,
                   h_plan, h_step, h_item, n_cmd, n_data_ok, nvm_log, boot_log>>

\* NVMCTRL_BlockErase(addr);
Flash_Erase ==
    /\ pc = "unlock_wait"
    /\ ~nvm_busy
    /\ flash' = NVMCTRL_BlockErase(flash, addr)
    /\ nvm_log' = Append(nvm_log, NvmOp("erase", addr, 0))
    /\ nvm_busy' = TRUE
    /\ pc' = "erase_wait"
    /\ UNCHANGED <<prog_vars, rx_vars, ft_vars, afirst, tick_expired, tx, tx_complete, sram,
                   host_vars, n_packets, n_bad_guard, n_cmd, n_data_ok, boot_log>>

\* The page, target address and source index of the loop's next turn: the
\* turn's NVMCTRL_PageWrite comes after the increments of the turn before it.
NextPage == IF pc = "erase_wait" THEN 0 ELSE page + 1
NextAddr == IF pc = "erase_wait" THEN addr ELSE addr + PAGE_SIZE
\* (a variant: write_idx is not advanced)
NextIdx_m == write_idx

NextIdx == IF pc = "erase_wait" THEN write_idx ELSE write_idx + WORDS(PAGE_SIZE)

\* for (page = 0; page < PAGES_IN_ERASE_BLOCK; page++)
\*     NVMCTRL_PageWrite(&flash_data[write_idx], addr);
Flash_PageWrite ==
    /\ pc \in {"erase_wait", "page_wait"}
    /\ ~nvm_busy
    /\ NextPage < PAGES_IN_ERASE_BLOCK
    /\ page' = NextPage
    /\ addr' = NextAddr
    /\ write_idx' = NextIdx
    /\ flash' = NVMCTRL_PageWrite(flash, flash_data, write_idx', addr')
    /\ nvm_log' = Append(nvm_log, NvmOp("write", addr', write_idx'))
    /\ nvm_busy' = TRUE
    /\ pc' = "page_wait"
    /\ UNCHANGED <<prog_vars, rx_vars, afirst, tick_expired, tx, tx_complete, sram,
                   host_vars, n_packets, n_bad_guard, n_cmd, n_data_ok, boot_log>>

\* The loop ends: flash_data_ready = false; and flash_task returns.
Flash_Done ==
    /\ pc \in {"erase_wait", "page_wait"}
    /\ ~nvm_busy
    /\ ~(NextPage < PAGES_IN_ERASE_BLOCK)
    /\ page' = NextPage
    /\ addr' = NextAddr
    /\ write_idx' = NextIdx
    /\ flash_data_ready' = FALSE
    /\ pc' = "loop"
    /\ UNCHANGED <<input_buffer, flash_data, flash_addr, unlock_begin, unlock_end,
                   input_command, packet_received, rx_vars, hw_vars, host_vars, hist_vars>>

-----------------------------------------------------------------------------
(* Actions: resets and the environment *)

\* A reset: the C start-up code initialises the statics again; the flash, the
\* bank status and the trigger words in RAM are as they were left.
ResetTo(fl, af) ==
    /\ pc' = "reset"
    /\ input_buffer' = EmptyMap
    /\ flash_data' = EmptyMap
    /\ flash_addr' = W_ZERO
    /\ unlock_begin' = W_ZERO
    /\ unlock_end' = W_ZERO
    /\ input_command' = 0
    /\ packet_received' = FALSE
    /\ flash_data_ready' = FALSE
    /\ ptr' = 0
    /\ size' = W_ZERO
    /\ header_received' = FALSE
    /\ addr' = 0
    /\ page' = 0
    /\ write_idx' = 0
    /\ flash' = fl
    /\ afirst' = af
    /\ nvm_busy' = FALSE
    /\ tick_expired' = FALSE
    /\ tx_complete' = TRUE

\* while (SERCOM0_USART_TransmitComplete() == false); NVIC_SystemReset();
Cmd_Reset ==
    /\ pc = "tx_wait_reset"
    /\ tx_complete
    /\ ResetTo(flash, afirst)
    /\ boot_log' = Append(boot_log, [by |-> "host", bank_a |-> afirst, why |-> "reset", does |-> "reset"])
    /\ UNCHANGED <<tx, sram, host_vars, n_packets, n_bad_guard, n_cmd, n_data_ok, nvm_log>>

\* while (SERCOM0_USART_TransmitComplete() == false); NVMCTRL_BankSwap();
Cmd_BankSwap ==
    /\ pc = "tx_wait_swap"
    /\ tx_complete
    /\ ResetTo(NVMCTRL_BankSwap(flash), ~afirst)
    /\ boot_log' = Append(boot_log, [by |-> "host", bank_a |-> afirst, why |-> "bkswap_reset", does |-> "swap"])
    /\ UNCHANGED <<tx, sram, host_vars, n_packets, n_bad_guard, n_cmd, n_data_ok, nvm_log>>

\* The transmitter has shifted the response out.
Tx_Done ==
    /\ pc \in TxWaits
    /\ ~tx_complete
    /\ tx_complete' = TRUE
    /\ UNCHANGED <<pc, prog_vars, rx_vars, ft_vars, flash, nvm_busy, afirst, tick_expired,
                   tx, sram, host_vars, hist_vars>>

\* The NVM controller has finished its command.
Nvm_Done ==
    /\ nvm_busy
    /\ nvm_busy' = FALSE
    /\ UNCHANGED <<pc, prog_vars, rx_vars, ft_vars, flash, afirst, tick_expired,
                   tx, tx_complete, sram, host_vars, hist_vars>>

\* The tick period passes while a packet waits behind a flash write: no call
\* of input_task() restarts the tick then.
Tick_Expire ==
    /\ pc \in FlashWaits
    /\ packet_received
    /\ ~tick_expired
    /\ tick_expired' = TRUE
    /\ UNCHANGED <<pc, prog_vars, rx_vars, ft_vars, flash, nvm_busy, afirst,
                   tx, tx_complete, sram, host_vars, hist_vars>>

\* A store outside input_buffer: what the program does from here on is
\* undefined, and the model follows it no further.
Store_Outside ==
    /\ pc \in {"loop"} \cup FlashWaits
    /\ pc \in FlashWaits => nvm_busy
    /\ h_off < h_item.n
    /\ Polled(TRUE).overrun
    /\ pc' = "undefined"
    /\ h_off' = h_off + 1
    /\ UNCHANGED <<prog_vars, rx_vars, ft_vars, hw_vars, h_plan, h_step, h_item, hist_vars>>

-----------------------------------------------------------------------------
(* Actions: the boot decision. SYS_Initialize() calls run_Application() when *)
(* bootloader_Trigger() returns false, and bootloader_Tasks() follows.       *)

Decided(why, does) ==
    boot_log' = Append(boot_log, [by |-> "boot", bank_a |-> afirst, why |-> why, does |-> does])

Boot_Trigger ==
    /\ pc = "reset"
    /\ bootloader_Trigger(flash, sram)
    /\ pc' = "loop"
    /\ Decided(IF FlashWord(flash, APP_START_ADDRESS) = W_ONES THEN "no_app" ELSE "trigger",
               "return")
    /\ UNCHANGED <<prog_vars, rx_vars, ft_vars, hw_vars, host_vars,
                   n_packets, n_bad_guard, n_cmd, n_data_ok, nvm_log>>

Run_Return ==
    /\ pc = "reset"
    /\ ~bootloader_Trigger(flash, sram)
    /\ \E r \in {run_Application(flash, afirst)} :
         r.does = "return" /\ Decided(r.why, r.does)
    /\ pc' = "loop"
    /\ UNCHANGED <<prog_vars, rx_vars, ft_vars, hw_vars, host_vars,
                   n_packets, n_bad_guard, n_cmd, n_data_ok, nvm_log>>

Run_Launch ==
    /\ pc = "reset"
    /\ ~bootloader_Trigger(flash, sram)
    /\ \E r \in {run_Application(flash, afirst)} :
         r.does = "launch" /\ Decided(r.why, r.does)
    /\ pc' = "app"
    /\ UNCHANGED <<prog_vars, rx_vars, ft_vars, hw_vars, host_vars,
                   n_packets, n_bad_guard, n_cmd, n_data_ok, nvm_log>>

Run_BankSwap ==
    /\ pc = "reset"
    /\ ~bootloader_Trigger(flash, sram)
    /\ \E r \in {run_Application(flash, afirst)} :
         r.does = "swap" /\ Decided(r.why, r.does)
    /\ ResetTo(NVMCTRL_BankSwap(flash), ~afirst)
    /\ UNCHANGED <<tx, sram, host_vars, n_packets, n_bad_guard, n_cmd, n_data_ok, nvm_log>>

Run_Undefined ==
    /\ pc = "reset"
    /\ ~bootloader_Trigger(flash, sram)
    /\ \E r \in {run_Application(flash, afirst)} :
         r.does = "undefined" /\ Decided(r.why, r.does)
    /\ pc' = "undefined"
    /\ UNCHANGED <<prog_vars, rx_vars, ft_vars, hw_vars, host_vars,
                   n_packets, n_bad_guard, n_cmd, n_data_ok, nvm_log>>

-----------------------------------------------------------------------------
(* The host's plans and the flash images the runs start from *)

\* How many items the host of the general plan sends.
MaxPackets == 3

\* An image at APP_START_ADDRESS, by offset: the initial MSP, the reset vector,
\* the descriptor (sig1, sig2, bin_size, crc32), two words of code.
ImgGood ==
    (0 :> W(32, 1, 0, 0)) @@ (4 :> W(0, 0, 33, 1)) @@
    (8 :> SIGNATURE1) @@ (12 :> SIGNATURE2) @@ (16 :> ToWord(32)) @@
    (20 :> W(253, 221, 191, 44)) @@
    (24 :> W(18, 52, 86, 120)) @@ (28 :> W(154, 188, 222, 240))

\* The same with a bit of its code flipped, with no descriptor, and with a
\* bin_size that ends before the descriptor does.
ImgBadCrc == [ImgGood EXCEPT ![28] = W(154, 188, 222, 241)]
ImgNoHeader == [o \in {0, 4, 24, 28} |-> ImgGood[o]]
ImgShort == [ImgGood EXCEPT ![16] = ToWord(8)]

Images == {EmptyMap, ImgGood, ImgBadCrc, ImgNoHeader, ImgShort}

\* An image whose descriptor lies right behind the first erase block: the
\* initial MSP and the reset vector, 8184 erased bytes, the descriptor.
ImgFar ==
    (0 :> W(32, 1, 0, 0)) @@ (4 :> W(0, 0, 33, 1)) @@
    (ERASE_BLOCK_SIZE :> SIGNATURE1) @@ (ERASE_BLOCK_SIZE + 4 :> SIGNATURE2) @@
    (ERASE_BLOCK_SIZE + 8 :> ToWord(ERASE_BLOCK_SIZE + 16)) @@
    (ERASE_BLOCK_SIZE + 12 :> W(35, 82, 160, 120))

PlaceAt(img, base) == [a \in {base + o : o \in DOMAIN img} |-> img[a - base]]

Srams == {<<"TRIGGER_SIGNATURE0", "TRIGGER_SIGNATURE1">>,
          <<"TRIGGER_SIGNATURE0", "other">>,
          <<"other", "other">>}

\* What a run starts from: the flash (an image in each bank), the bank
\* status, the trigger words.
BootConfigs ==
    {[flash |-> FlashOf(PlaceAt(i1, APP_START_ADDRESS) @@ PlaceAt(i2, APP_START_ADDRESS + BANK_SIZE)),
      afirst |-> a, sram |-> t] : i1 \in Images, i2 \in Images, a \in BOOLEAN, t \in Srams}

Blank == [flash |-> EmptyMap, afirst |-> TRUE, sram |-> <<"other", "other">>]

PUnlock(a, s) == Packet(BL_CMD_UNLOCK, ToWord(8), <<a, s>>, 1)
\* DATA with n bytes of data after the address (all of the block: n = DATA_SIZE)
PData(a, n, blk) == Packet(BL_CMD_DATA, ToWord(OFFSET_SIZE + n), <<a>>, blk)
PVerify(c) == Packet(BL_CMD_VERIFY, ToWord(4), <<c>>, 1)
PReset == Packet(BL_CMD_RESET, W_ZERO, <<>>, 1)
PSwap == Packet(BL_CMD_BKSWAP_RESET, W_ZERO, <<>>, 1)
PUnknown == Packet(85, ToWord(4), <<W_ZERO>>, 1)
PBadGuard == BadGuard(PUnknown, W_ZERO)
\* One byte 0 outside any packet
PStray == Truncated(PBadGuard, 1)

\* The IEEE 802.3 CRC32 of the blocks of Blocks
BlockCrc == <<W(216, 244, 153, 148), W(31, 44, 77, 157)>>

\* The CRC32 of a page whose first byte is 1 and whose others are 0
PageCrc == W(162, 216, 174, 80)

\* The general plan unlocks the first page of the application's first block.
GeneralMenu ==
    {PUnlock(ToWord(APP_START_ADDRESS), ToWord(PAGE_SIZE)),
     PData(ToWord(APP_START_ADDRESS), 4, 2),
     PData(ToWord(APP_START_ADDRESS + ERASE_BLOCK_SIZE), 4, 2),
     PVerify(PageCrc),
     PReset,
     PUnknown,
     PBadGuard,
     Pause}

\* The unlock sweep: after a valid UNLOCK, an UNLOCK whose words are drawn from
\* these (0x3FFF and 0xFFFFFFFF are not aligned; 0xFFFFE000 + 0x4000 and
\* 0x2000 + 0xFFFFFE00 wrap around; 0xFE000 + 0x4000 ends beyond the flash),
\* then a DATA.
SweepAddrs == {W_ZERO, W(0, 0, 63, 255), W(0, 15, 224, 0), W(0, 16, 0, 0),
               W(255, 255, 224, 0), W_ONES}
SweepSizes == {W_ZERO, W(0, 0, 1, 255), W(0, 0, 2, 0), W(0, 0, 32, 0), W(0, 0, 64, 0),
               W(0, 16, 0, 0), W(255, 255, 254, 0), W_ONES}
SweepMenu == {PUnlock(a, s) : a \in SweepAddrs, s \in SweepSizes}
SweepData == {PData(a, 4, 1) : a \in {W_ZERO, W(0, 0, 63, 255), W(0, 0, 64, 0), W_ONES}}

\* Resynchronisation: the host stops after the first n bytes of an UNLOCK,
\* pauses, and sends a well-formed packet.
ResyncMenu ==
    {Truncated(PUnlock(ToWord(APP_START_ADDRESS), ToWord(PAGE_SIZE)), n) :
        n \in {1, 4, 8, HEADER_SIZE, HEADER_SIZE + 3, HEADER_SIZE + 8}}

\* The long stream: the host stops 10 bytes into the payload of a DATA, pauses,
\* and sends the DATA again.
LongData == PData(ToWord(APP_START_ADDRESS), DATA_SIZE, 2)

\* An application is installed and the trigger words are set.
Installed == [flash |-> FlashOf(PlaceAt(ImgGood, APP_START_ADDRESS)), afirst |-> TRUE,
              sram |-> <<"TRIGGER_SIGNATURE0", "TRIGGER_SIGNATURE1">>]

\* The image with the far descriptor is installed in bank A.
FarInstalled == [flash |-> FlashOf(PlaceAt(ImgFar, APP_START_ADDRESS)), afirst |-> TRUE,
                 sram |-> <<"other", "other">>]

\* The round trips: the address, and which of Blocks is sent.
RoundTrips ==
    [trip_zeros |-> [a |-> APP_START_ADDRESS, blk |-> 1],
     trip_first |-> [a |-> APP_START_ADDRESS, blk |-> 2],
     trip_last |-> [a |-> FLASH_START + FLASH_LENGTH - ERASE_BLOCK_SIZE, blk |-> 2]]

RoundTripPlan(t) ==
    [boots |-> {Installed},
     menus |-> <<{PUnlock(ToWord(t.a), ToWord(ERASE_BLOCK_SIZE))},
                 {PData(ToWord(t.a), DATA_SIZE, t.blk)},
                 {PVerify(BlockCrc[1]), PVerify(BlockCrc[2])}>>]

Plans ==
    [\* any boot configuration; the host asks for a reset or a bank swap
     boot |-> [boots |-> BootConfigs, menus |-> <<{PReset, PSwap}, {PStray}>>],
     \* no application installed; the host sends MaxPackets items
     general |-> [boots |-> {Blank}, menus |-> [i \in 1..MaxPackets |-> GeneralMenu]],
     sweep |-> [boots |-> {Blank},
                menus |-> <<{PUnlock(ToWord(APP_START_ADDRESS), ToWord(ERASE_BLOCK_SIZE))},
                            SweepMenu, SweepData>>],
     resync |-> [boots |-> {Blank},
                 menus |-> <<ResyncMenu \cup {PBadGuard}, {Pause}, {PUnknown}>>],
     long |-> [boots |-> {Blank},
               menus |-> <<{Truncated(LongData, HEADER_SIZE + 10)}, {Pause}, {LongData}>>],
     \* a third and a fourth packet follow a DATA that is being programmed
     pending |-> [boots |-> {Blank},
                  menus |-> <<{PUnlock(ToWord(APP_START_ADDRESS), ToWord(PAGE_SIZE))},
                              {PData(ToWord(APP_START_ADDRESS), 4, 2)},
                              {PUnknown},
                              {PVerify(PageCrc), PBadGuard}>>],
     \* the descriptor lies behind the first erase block
     far |-> [boots |-> {FarInstalled}, menus |-> <<{PStray}>>]]
    @@ [t \in DOMAIN RoundTrips |-> RoundTripPlan(RoundTrips[t])]

-----------------------------------------------------------------------------
(* Actions: the host *)

HostMenu ==
    IF h_off = h_item.n /\ h_step < Len(Plans[h_plan].menus) /\ pc \notin {"app", "undefined"}
    THEN Plans[h_plan].menus[h_step + 1]
    ELSE {}

\* The host starts to send the next item of its plan.
Host_Send ==
    /\ \E it \in HostMenu :
         /\ it.kind = "packet"
         /\ h_item' = it
    /\ h_off' = 0
    /\ h_step' = h_step + 1
    /\ UNCHANGED <<pc, prog_vars, rx_vars, ft_vars, hw_vars, h_plan, hist_vars>>

\* The host lets more than the tick period pass before its next byte.
Host_Pause ==
    /\ \E it \in HostMenu : it.kind = "pause"
    /\ h_item' = NoItem
    /\ h_off' = 0
    /\ h_step' = h_step + 1
    /\ tick_expired' = TRUE
    /\ UNCHANGED <<pc, prog_vars, rx_vars, ft_vars, flash, nvm_busy, afirst, tx, tx_complete,
                   sram, h_plan, hist_vars>>

-----------------------------------------------------------------------------
(* The specification *)

Init ==
    /\ pc = "reset"
    /\ input_buffer = EmptyMap
    /\ flash_data = EmptyMap
    /\ flash_addr = W_ZERO
    /\ unlock_begin = W_ZERO
    /\ unlock_end = W_ZERO
    /\ input_command = 0
    /\ packet_received = FALSE
    /\ flash_data_ready = FALSE
    /\ ptr = 0
    /\ size = W_ZERO
    /\ header_received = FALSE
    /\ addr = 0
    /\ page = 0
    /\ write_idx = 0
    /\ nvm_busy = FALSE
    /\ tick_expired = FALSE
    /\ tx = <<>>
    /\ tx_complete = TRUE
    /\ h_plan \in DOMAIN Plans
    /\ \E b \in Plans[h_plan].boots :
         /\ flash = b.flash
         /\ afirst = b.afirst
         /\ sram = b.sram
    /\ h_step = 0
    /\ h_item = NoItem
    /\ h_off = 0
    /\ n_packets = 0
    /\ n_bad_guard = 0
    /\ n_cmd = 0
    /\ n_data_ok = 0
    /\ nvm_log = <<>>
    /\ boot_log = <<>>

Next ==
    \/ Boot_Trigger
    \/ Run_Return
    \/ Run_Launch
    \/ Run_BankSwap
    \/ Run_Undefined
    \/ Loop_Idle
    \/ Loop_Command
    \/ Loop_Flash
    \/ Flash_Poll
    \/ Flash_Erase
    \/ Flash_PageWrite
    \/ Flash_Done
    \/ Cmd_Reset
    \/ Cmd_BankSwap
    \/ Tx_Done
    \/ Nvm_Done
    \/ Tick_Expire
    \/ Store_Outside
    \/ Host_Send
    \/ Host_Pause

Spec == Init /\ [][Next]_vars

\* The processor keeps executing the program, so a step of the program that
\* stays possible is taken; the NVM controller finishes each command and the
\* transmitter shifts each byte out. Nothing is asked of the host, which may
\* stop sending at any byte.
Fairness ==
    /\ WF_vars(Loop_Command)
    /\ WF_vars(Loop_Flash)
    /\ WF_vars(Flash_Erase)
    /\ WF_vars(Flash_PageWrite)
    /\ WF_vars(Flash_Done)
    /\ WF_vars(Cmd_Reset)
    /\ WF_vars(Cmd_BankSwap)
    /\ WF_vars(Nvm_Done)
    /\ WF_vars(Tx_Done)

\* The hosts the progress of the main loop is followed with: the packets
\* are short, but for the long stream that ends in a store outside
\* input_buffer.
LivePlans == {"boot", "resync", "long", "pending"}

LiveInit == Init /\ h_plan \in LivePlans

LiveSpec == LiveInit /\ [][Next]_vars /\ Fairness


-----------------------------------------------------------------------------
(* Properties *)

Last(seq) == seq[Len(seq)]

Range(seq) == {seq[i] : i \in DOMAIN seq}

\* A step in which command_task() runs, on the command cmd
Commanded(cmd) == n_cmd' = n_cmd + 1 /\ input_command' = cmd

\* A step in which input_task() reads a byte
ByteRead == h_off' = h_off + 1 /\ pc' # "undefined"

\* A step in which the boot decision is taken
BootStep == pc = "reset" /\ boot_log' # boot_log

TriggerWords == <<"TRIGGER_SIGNATURE0", "TRIGGER_SIGNATURE1">>

\* C1: the response bytes written are as many as the packets command_task has
\* been called for plus the headers refused for their guard, and every packet
\* input_task completed has been answered by command_task, but for the one
\* that is pending (packet_received set and command_task not yet called).
\* (Nothing is said of a run after a store outside input_buffer.)
C1_OneResponsePerPacket ==
    pc # "undefined" =>
        /\ Len(tx) = n_cmd + n_bad_guard
        /\ n_packets = n_cmd + (IF packet_received /\ pc \notin TxWaits THEN 1 ELSE 0)

\* Two packets with an unknown command and a header with a wrong guard have
\* been answered.
C1_Witness ==
    /\ n_cmd = 2
    /\ n_bad_guard = 1
    /\ Len(tx) = 3
    /\ BL_RESP_INVALID \in Range(tx)
    /\ BL_RESP_ERROR \in Range(tx)

\* The word that is u units of 256
C2_Word(u) == <<0, u % 256, (u \div 256) % 256, u \div 65536>>

\* begin = addr & ~(8192 - 1) and end = begin + (size & ~(512 - 1)) modulo
\* 2^32, in units of 256
C2_Begin(a) == (a[2] - (a[2] % 32)) + 256 * a[3] + 65536 * a[4]
C2_End(a, sz) == (C2_Begin(a) + (sz[2] - (sz[2] % 2)) + 256 * sz[3] + 65536 * sz[4]) % 16777216

\* C2: an UNLOCK with the payload words (addr, size) leaves the window
\* [begin, end) and answers OK if begin < end and end <= 0x100000, and leaves
\* the window [0, 0) and answers ERROR in every other case.
C2_UnlockWindow ==
    [][Commanded(BL_CMD_UNLOCK) =>
        LET a == BufWord(input_buffer', ADDR_OFFSET)
            sz == BufWord(input_buffer', SIZE_OFFSET)
            begin == C2_Begin(a)
            end == C2_End(a, sz)
        IN  /\ Len(tx') = Len(tx) + 1
            /\ IF begin < end /\ end <= (FLASH_START + FLASH_LENGTH) \div 256
               THEN /\ unlock_begin' = C2_Word(begin)
                    /\ unlock_end' = C2_Word(end)
                    /\ Last(tx') = BL_RESP_OK
               ELSE /\ unlock_begin' = W_ZERO
                    /\ unlock_end' = W_ZERO
                    /\ Last(tx') = BL_RESP_ERROR]_vars

\* After a valid UNLOCK, the UNLOCK of 0xFFFFE000 + 0x4000, which wraps around
\* to 0x2000, has cleared the window.
C2_Witness ==
    /\ h_plan = "sweep"
    /\ n_cmd = 2
    /\ tx = <<BL_RESP_OK, BL_RESP_ERROR>>
    /\ BufWord(input_buffer, ADDR_OFFSET) = W(255, 255, 224, 0)
    /\ BufWord(input_buffer, SIZE_OFFSET) = W(0, 0, 64, 0)
    /\ unlock_begin = W_ZERO
    /\ unlock_end = W_ZERO

\* The number of the erase block a word points into, and of the page
C3_Block(w) == (w[2] \div 32) + 8 * w[3] + 2048 * w[4]
C3_Page(w) == (w[2] \div 2) + 128 * w[3] + 32768 * w[4]

\* (addr & ~(8192 - 1)) lies in the window [u0, u1)
C3_InWindow(u0, u1, a) ==
    /\ C3_Page(u0) <= PAGES_IN_ERASE_BLOCK * C3_Block(a)
    /\ PAGES_IN_ERASE_BLOCK * C3_Block(a) < C3_Page(u1)

\* flash_data holds the words of buf that follow the address
C3_Staged(fd, buf) ==
    \A i \in DOMAIN fd \cup {(b \div 4) - DATA_OFFSET : b \in DOMAIN buf} :
        (0 <= i /\ i < WORDS(DATA_SIZE)) => Get(fd, i, W_ZERO) = BufWord(buf, i + DATA_OFFSET)

\* C3: a DATA is answered OK if its block address lies in the unlock window and
\* ERROR if not; flash_data is overwritten and flash_data_ready set when it is
\* OK, and both are left alone when it is ERROR; the NVM controller is given a
\* command only while flash_data_ready is set, and no more than an unlock, an
\* erase and 16 page writes for each DATA that was accepted.
C3_DataAccepted ==
    [][/\ Commanded(BL_CMD_DATA) =>
            LET ok == C3_InWindow(unlock_begin, unlock_end, BufWord(input_buffer', ADDR_OFFSET))
            IN  /\ Len(tx') = Len(tx) + 1
                /\ Last(tx') = IF ok THEN BL_RESP_OK ELSE BL_RESP_ERROR
                /\ ok => flash_data_ready' /\ C3_Staged(flash_data', input_buffer')
                /\ ~ok => flash_data' = flash_data /\ flash_data_ready' = flash_data_ready
                /\ ~ok => ~flash_data_ready'
       /\ nvm_log' # nvm_log =>
            /\ flash_data_ready
            /\ Len(nvm_log') <= (PAGES_IN_ERASE_BLOCK + 2) * n_data_ok]_vars

\* A DATA into the window was accepted and programmed, and a DATA outside it
\* was refused.
C3_Witness ==
    /\ h_plan = "general"
    /\ n_data_ok = 1
    /\ tx = <<BL_RESP_OK, BL_RESP_OK, BL_RESP_ERROR>>
    /\ input_command = BL_CMD_DATA
    /\ flash_addr = ToWord(APP_START_ADDRESS + ERASE_BLOCK_SIZE)
    /\ Len(nvm_log) = PAGES_IN_ERASE_BLOCK + 2

\* C4: once the 9 bytes of a header with the right guard and size 0 have been
\* read, the packet is complete: input_task has set packet_received for it.
\* (The item is the first the host sends after the reset, so the receiver was
\* at the start of a header when its first byte came.)
C4_EmptyPacketComplete ==
    (/\ h_step = 1
     /\ h_item.kind = "packet"
     /\ h_item.guard = BTL_GUARD
     /\ h_item.size = W_ZERO
     /\ h_off = HEADER_SIZE) => n_packets = 1

\* C5: a byte read after the tick period has expired is stored as byte 0 of a
\* new header.
C5_TimeoutRestartsHeader ==
    [][(tick_expired /\ ByteRead) =>
          /\ Get(input_buffer', 0, 0) = ItemByte(h_item, h_off)
          /\ ptr' = 1
          /\ ~header_received']_vars

\* The commands the NVM controller is given for the k-th DATA that was accepted
C6_Programmed(log, k) ==
    LET at == (PAGES_IN_ERASE_BLOCK + 2) * (k - 1)
        base == log[at + 1].addr
    IN  /\ log[at + 1].op = "unlock"
        /\ log[at + 2].op = "erase" /\ log[at + 2].addr = base
        /\ \A j \in 0..(PAGES_IN_ERASE_BLOCK - 1) :
              /\ log[at + 3 + j].op = "write"
              /\ log[at + 3 + j].addr = base + j * PAGE_SIZE
              /\ log[at + 3 + j].idx = j * WORDS(PAGE_SIZE)

\* C6: command_task() is called only while flash_data_ready is clear, and when
\* the erase and the 16 page writes of every DATA accepted before have been
\* issued and have completed.
C6_CommandAfterProgramming ==
    [][n_cmd' # n_cmd =>
          /\ ~flash_data_ready
          /\ ~nvm_busy
          /\ Len(nvm_log) = (PAGES_IN_ERASE_BLOCK + 2) * n_data_ok
          /\ \A k \in 1..n_data_ok : C6_Programmed(nvm_log, k)]_vars

\* A VERIFY that was complete while the block was being programmed (the tick
\* expired behind the flash write) has been answered after it.
C6_Witness ==
    /\ h_plan \in DOMAIN RoundTrips
    /\ tick_expired
    /\ n_cmd = 3
    /\ n_data_ok = 1
    /\ pc = "loop"
    /\ ~flash_data_ready
    /\ Len(nvm_log) = PAGES_IN_ERASE_BLOCK + 2

\* The flash at [a, a + 8192) holds the block blk of Blocks
C7_Holds(fl, a, blk) ==
    \A o \in 0..(ERASE_BLOCK_SIZE - 1) : FlashByte(fl, a + o) = Get(Blocks[blk], o, 0)

\* C7: when UNLOCK(a, 8192), DATA(a, block) and VERIFY(c) with c the CRC of the
\* block have been answered, the responses are OK, OK, CRC_OK and the flash at
\* [a, a + 8192) holds the block.
C7_RoundTrip ==
    \A t \in DOMAIN RoundTrips :
        (/\ h_plan = t
         /\ n_cmd = 3
         /\ h_item.words = <<BlockCrc[RoundTrips[t].blk]>>)
        => /\ tx = <<BL_RESP_OK, BL_RESP_OK, BL_RESP_CRC_OK>>
           /\ C7_Holds(flash, RoundTrips[t].a, RoundTrips[t].blk)

\* The round trip over the installed application is complete.
C7_Witness ==
    /\ h_plan = "trip_first"
    /\ n_cmd = 3
    /\ tx = <<BL_RESP_OK, BL_RESP_OK, BL_RESP_CRC_OK>>
    /\ FlashByte(flash, APP_START_ADDRESS) = 1
    /\ FlashByte(flash, APP_START_ADDRESS + ERASE_BLOCK_SIZE - 1) = 5

\* An application is installed, its descriptor is found, and the CRC computed
\* over the image is (is not) the descriptor's crc32
C8_Checked(fl) ==
    /\ FlashWord(fl, APP_START_ADDRESS) # W_ONES
    /\ find_binary_header(fl) # NULL
    /\ TailInFlash(fl, find_binary_header(fl))

C8_Match(fl) ==
    C8_Checked(fl) /\ ImageChecksum(fl, find_binary_header(fl)) = HdrCrc32(fl, find_binary_header(fl))

C8_Mismatch(fl) ==
    C8_Checked(fl) /\ ImageChecksum(fl, find_binary_header(fl)) # HdrCrc32(fl, find_binary_header(fl))

\* C8: the application is launched only when it is installed, its descriptor
\* was found and the computed CRC is the stored one; when run_Application()
\* finds the CRCs different, it swaps the banks (which resets) on bank A and
\* returns to the bootloader loop on bank B.
C8_LaunchOnlyVerified ==
    [][/\ (pc = "reset" /\ pc' = "app") => C8_Match(flash)
       /\ (BootStep /\ ~bootloader_Trigger(flash, sram) /\ C8_Mismatch(flash)) =>
             IF afirst
             THEN pc' = "reset" /\ ~afirst' /\ flash' = NVMCTRL_BankSwap(flash)
             ELSE pc' = "loop" /\ flash' = flash]_vars

\* The image of bank A failed the check, the banks were swapped, and the image
\* of bank B was launched.
C8_Witness ==
    /\ pc = "app"
    /\ Len(boot_log) = 2
    /\ boot_log[1].by = "boot"
    /\ boot_log[1].why = "crc_mismatch"
    /\ boot_log[1].does = "swap"
    /\ C8_Match(flash)

\* C9: at reset with an application installed and the trigger words set, the
\* bootloader loop is entered.
C9_TriggerEntersLoop ==
    [][(/\ BootStep
        /\ FlashWord(flash, APP_START_ADDRESS) # W_ONES
        /\ sram = TriggerWords) => pc' = "loop"]_vars

\* The loop was entered for the trigger, with an image whose CRC matches.
C9_Witness ==
    /\ pc = "loop"
    /\ sram = TriggerWords
    /\ C8_Match(flash)
    /\ Len(boot_log) = 1
    /\ boot_log[1].why = "trigger"
    /\ boot_log[1].does = "return"

\* C10: when the bootloader loop is entered for a CRC mismatch, the decision
\* before it, in the same chain of resets, was a bank swap for a CRC mismatch:
\* both images have been checked.
C10_BothBanksChecked ==
    (/\ boot_log # <<>>
     /\ Last(boot_log).by = "boot"
     /\ Last(boot_log).why = "crc_mismatch"
     /\ Last(boot_log).does = "return")
    => /\ Len(boot_log) >= 2
       /\ boot_log[Len(boot_log) - 1].by = "boot"
       /\ boot_log[Len(boot_log) - 1].why = "crc_mismatch"
       /\ boot_log[Len(boot_log) - 1].does = "swap"

\* The word-aligned addresses of the application's first erase block, from
\* APP_START_ADDRESS to APP_START_ADDRESS + 8192 - 4.
C11_Range == {APP_START_ADDRESS + 4 * k : k \in 0..(WORDS(ERASE_BLOCK_SIZE) - 1)}

\* C11: when run_Application() looks for the descriptor, find_binary_header()
\* returns the lowest word-aligned address from APP_START_ADDRESS to
\* APP_START_ADDRESS + 8192 - 4 that holds the two signatures, and NULL when
\* there is none: never an address at or beyond APP_START_ADDRESS + 8192.
C11_ScanFirstBlock ==
    (pc = "reset" /\ FlashWord(flash, APP_START_ADDRESS) # W_ONES) =>
        LET hits == {w \in C11_Range \cap Foreground(flash) : IsHeaderAt(flash, w)}
            hdr == find_binary_header(flash)
        IN  /\ hits = {} => hdr = NULL
            /\ hits # {} => hdr \in hits /\ \A v \in hits : hdr <= v
            /\ hdr < APP_START_ADDRESS + ERASE_BLOCK_SIZE

\* C12: when run_Application() computes the image's CRC for the descriptor
\* found at d, the bytes its two crc32 calls read are those of
\* [APP_START_ADDRESS, APP_START_ADDRESS + bin_size) outside [d, d + 16): the
\* first call reads up to d or to the image's end, whichever comes first, and
\* the second reads from d + 16 to the image's end, nothing when the image
\* ends before d + 16.
C12_CrcOverImage ==
    (/\ pc = "reset"
     /\ ~bootloader_Trigger(flash, sram)
     /\ FlashWord(flash, APP_START_ADDRESS) # W_ONES
     /\ find_binary_header(flash) # NULL) =>
        LET d == find_binary_header(flash)
            bin == HdrBinSize(flash, d)
            head == IF WLess(bin, ToWord(d - APP_START_ADDRESS))
                    THEN bin
                    ELSE ToWord(d - APP_START_ADDRESS)
            tail == IF WLess(bin, ToWord(d + HDR_SIZE - APP_START_ADDRESS))
                    THEN W_ZERO
                    ELSE WSub(bin, ToWord(d + HDR_SIZE - APP_START_ADDRESS))
        IN  /\ ToWord(d - APP_START_ADDRESS) = head
            /\ TailLen(flash, d) = tail

\* Entry i of the log of NVM commands is what flash_task() issues at that place
\* of its run: the runs are of 18 commands, an unlock, an erase at the same
\* address, and the writes of the pages 0..15 from the 128-word slices of
\* flash_data, each but the unlock issued with the controller idle.
C13_Entry(log, i) ==
    LET j == (i - 1) % (PAGES_IN_ERASE_BLOCK + 2)
        first == log[i - j]
        e == log[i]
    IN  IF j = 0 THEN e.op = "unlock"
        ELSE IF j = 1 THEN e.op = "erase" /\ e.addr = first.addr /\ ~e.busy
        ELSE /\ e.op = "write"
             /\ e.addr = first.addr + (j - 2) * PAGE_SIZE
             /\ e.idx = (j - 2) * WORDS(PAGE_SIZE)
             /\ ~e.busy

\* C13: a run of flash_task() issues the region unlock for flash_addr, one
\* erase at flash_addr and the 16 page writes at flash_addr + 512 k from the
\* words [128 k, 128 k + 128) of flash_data, in this order and each after the
\* controller has become idle; flash_data_ready is cleared only when the 16th
\* write has been issued and the controller is idle again, and the main loop
\* is never back in control with a run unfinished.
C13_FlashRun ==
    [][/\ nvm_log' # nvm_log =>
            /\ nvm_log' = Append(nvm_log, Last(nvm_log'))
            /\ C13_Entry(nvm_log', Len(nvm_log'))
            /\ flash_data_ready /\ flash_data_ready'
            /\ flash_addr' = flash_addr
            /\ nvm_log'[Len(nvm_log') - (Len(nvm_log) % (PAGES_IN_ERASE_BLOCK + 2))].addr
                   = ToInt(flash_addr)
       /\ (flash_data_ready /\ ~flash_data_ready') =>
            /\ ~nvm_busy
            /\ Len(nvm_log) = (PAGES_IN_ERASE_BLOCK + 2) * n_data_ok
            /\ Last(nvm_log).op = "write"
            /\ Last(nvm_log).addr = ToInt(flash_addr) + (PAGES_IN_ERASE_BLOCK - 1) * PAGE_SIZE
            /\ pc' = "loop"
       /\ pc' = "loop" => Len(nvm_log') % (PAGES_IN_ERASE_BLOCK + 2) = 0]_vars

\* A run of flash_task() has ended: 18 commands, the block at 0x2000 holds the
\* bytes that were sent.
C13_Witness ==
    /\ pc = "loop"
    /\ ~flash_data_ready
    /\ n_data_ok = 1
    /\ Len(nvm_log) = PAGES_IN_ERASE_BLOCK + 2
    /\ nvm_log[1].addr = APP_START_ADDRESS
    /\ FlashByte(flash, APP_START_ADDRESS + 4096) = 4

\* C14: while packet_received is set, no step but a reset changes
\* input_buffer, input_command, ptr, size or header_received, and no byte the
\* host has sent is read: the calls of input_task() from the main loop and
\* from the busy-waits of flash_task() return at once, and command_task() is
\* given the buffer as it was when the packet was completed.
C14_PendingPacketKept ==
    [][(packet_received /\ pc' # "reset") =>
          /\ UNCHANGED <<input_buffer, input_command, ptr, size, header_received>>
          /\ (h_step' = h_step => h_off' = h_off)
          /\ pc' # "undefined"]_vars

\* A packet is pending behind a page write, the tick period has passed, and the
\* first byte of the host's next packet is there to be read.
C14_Witness ==
    /\ packet_received
    /\ pc = "page_wait"
    /\ nvm_busy
    /\ tick_expired
    /\ h_item.kind = "packet"
    /\ h_off = 0
    /\ h_step = 4

\* A step that makes a call of input_task(): a turn of the main loop, or a
\* turn of one of the busy-waits of flash_task()
PollStep == Loop_Idle \/ Loop_Command \/ Loop_Flash \/ Flash_Poll

\* C15 as stated: every call of input_task() reads the tick's flag and restarts
\* the tick, so that the period has not expired when the call returns, also
\* when the call returned early.
C15_EveryCallRestartsTick ==
    [][PollStep => ~tick_expired']_vars

\* C15: a call of input_task() reads the tick's flag and restarts the tick
\* exactly when it reads a serial byte; a call that returns early, because
\* packet_received is set or because no byte is there, leaves the tick as it is
\* (an expired period stays expired for the next byte that is read).
C15_ByteRestartsTick ==
    [][PollStep =>
          /\ (h_off' = h_off + 1) => (~packet_received /\ ~tick_expired')
          /\ (h_off' = h_off) => (tick_expired' = tick_expired)
          /\ packet_received => (h_off' = h_off)
          /\ (tick_expired /\ h_off' = h_off + 1) =>
                \* the byte was taken for a byte of a header
                \/ ptr' = ptr + 1 /\ ~header_received'
                \/ ptr' = 0 /\ ptr = HEADER_SIZE - 1]_vars

\* command_task() has answered a packet that waited behind a flash write for
\* longer than the tick period: the calls of input_task() made meanwhile have
\* left the tick expired.
C15_Witness ==
    /\ pc = "loop"
    /\ tick_expired
    /\ ~packet_received
    /\ n_cmd = 3
    /\ n_data_ok = 1
    /\ Len(nvm_log) = PAGES_IN_ERASE_BLOCK + 2
    /\ Last(tx) = BL_RESP_INVALID

\* The most packets a host of the model sends, hence the most calls of
\* command_task() in a run.
C16_Calls ==
    LET lens == {Len(Plans[p].menus) : p \in DOMAIN Plans}
    IN  CHOOSE n \in lens : \A m \in lens : m <= n

\* C16: when the NVM controller finishes every command and the transmitter
\* every byte, flash_data_ready, once set, is cleared, and a packet that is
\* pending is given to command_task(), answered, and packet_received cleared
\* (by command_task(), or by the reset the command asks for), whatever the host
\* sends meanwhile; runs are followed up to a store outside input_buffer.
C16_LoopProgress ==
    /\ flash_data_ready ~> (~flash_data_ready \/ pc = "undefined")
    /\ \A n \in 0..C16_Calls :
          (packet_received /\ pc \notin TxWaits /\ n_cmd = n)
              ~> (~packet_received /\ n_cmd = n + 1 /\ Len(tx) = n_cmd + n_bad_guard)

\* The four packets of the host that sends during the programming of a DATA
\* have been answered: the third waited for flash_task() to return.
C16_Witness ==
    /\ pc = "loop"
    /\ h_plan = "pending"
    /\ ~packet_received
    /\ ~flash_data_ready
    /\ n_cmd = 4
    /\ n_data_ok = 1
    /\ Len(tx) = 4
    /\ tx[3] = BL_RESP_INVALID

\* The bytes an NVM command erases or programs: the erase block, the page.
C17_Span(e) == IF e.op = "erase" THEN ERASE_BLOCK_SIZE ELSE PAGE_SIZE

\* C17: every erase and every page write flash_task() issues lies inside
\* [unlock_begin, unlock_end), the window the DATA was accepted for (no UNLOCK
\* is processed while flash_task() runs).
C17_WritesInsideWindow ==
    [][nvm_log' # nvm_log =>
          LET e == Last(nvm_log')
          IN  e.op # "unlock" =>
                /\ ToInt(unlock_begin) <= e.addr
                /\ e.addr + C17_Span(e) <= ToInt(unlock_end)]_vars

\* C18: no erase and no page write is issued for an address below
\* APP_START_ADDRESS, in the bootloader's own [0, 0x2000).
C18_BootloaderKept ==
    \A i \in DOMAIN nvm_log :
        nvm_log[i].op # "unlock" => APP_START_ADDRESS <= nvm_log[i].addr

\* C19: while flash_data_ready is set, flash_addr is a multiple of 8192 and
\* the block at flash_addr ends at or before the end of the flash; no erase
\* and no page write goes beyond the end of the flash.
C19_BlockInsideFlash ==
    /\ flash_data_ready =>
          /\ WAnd(flash_addr, ToWord(ERASE_BLOCK_SIZE - 1)) = W_ZERO
          /\ WLess(flash_addr, ToWord(FLASH_START + FLASH_LENGTH))
          /\ ToInt(flash_addr) + ERASE_BLOCK_SIZE <= FLASH_START + FLASH_LENGTH
    /\ \A i \in DOMAIN nvm_log :
          /\ nvm_log[i].addr % PAGE_SIZE = 0
          /\ nvm_log[i].addr + C17_Span(nvm_log[i]) <= FLASH_START + FLASH_LENGTH

\* The last block of the flash is being programmed: the 16th page write has
\* been issued, up to the last byte of the flash.
C19_Witness ==
    /\ flash_data_ready
    /\ flash_addr = ToWord(FLASH_START + FLASH_LENGTH - ERASE_BLOCK_SIZE)
    /\ pc = "page_wait"
    /\ page = PAGES_IN_ERASE_BLOCK - 1
    /\ Last(nvm_log).addr + PAGE_SIZE = FLASH_START + FLASH_LENGTH

\* C20: no call of input_task() that reads a byte stores it at or beyond the
\* end of input_buffer (every header of the model's hosts declares a payload
\* of at most 8196 bytes).
C20_StoreInsideBuffer ==
    [][(h_off' = h_off + 1 /\ h_step' = h_step) => ~Polled(TRUE).overrun]_vars

\* Decision i of boot_log is a bank swap that run_Application() asked for.
C21_Swap(i) == boot_log[i].by = "boot" /\ boot_log[i].does = "swap"

\* C21: in the chain of boot decisions that follows a reset, run_Application()
\* swaps the banks at most once (a swap is never followed by another), and
\* every decision is a launch, an entry into the bootloader loop, or that one
\* swap: no run of the boot decision is left without an end.
C21_ChainEnds ==
    \A i \in DOMAIN boot_log :
        /\ (C21_Swap(i) /\ i > 1) => ~C21_Swap(i - 1)
        /\ boot_log[i].by = "boot" => boot_log[i].does \in {"launch", "return", "swap"}

=============================================================================
